---------------------------- MODULE Spec2Model ----------------------------
(***************************************************************************)
(* A model of reddit_ripper.py: the URL parser, the filename sanitizer,    *)
(* the comment flattener, the markdown formatter, the file writer and the  *)
(* command-line driver main().                                             *)
(*                                                                         *)
(* Text is modelled as a sequence of characters.  A character is a         *)
(* one-character string; three characters outside ASCII that Python's      *)
(* str.lower() and \w treat specially are named by their code point.       *)
(***************************************************************************)
EXTENDS Integers, Sequences, FiniteSets, TLC

VARIABLES
    arg,              \* the argument(s) of the function under test
    ret,              \* its result (Nothing before the call)
    ret2,             \* the result of applying it again to ret
    pc,               \* the position of main()
    args,             \* the parsed command line
    env,              \* REDDIT_CLIENT_ID / REDDIT_CLIENT_SECRET
    creds,            \* main's locals client_id and client_secret
    reddit,           \* the praw.Reddit client, once constructed
    fetches,          \* how many times the thread was asked of the remote
    submission,       \* the thread held by the API client
    post_data,        \* the dict built by extract_post
    markdown_content, \* the string built by format_markdown
    filename,         \* the path save_to_file returned
    files,            \* the files of output/: path -> content
    files0,           \* the files of output/ when the run started
    output_dir,       \* whether the directory output exists
    writes,           \* how many times a file was opened for writing
    stdout,           \* lines printed to standard output
    stderr,           \* lines printed to the error stream
    exit_code,        \* the process exit status (Nothing while running)
    log               \* the stages carried out so far, in order

vars == <<arg, ret, ret2, pc, args, env, creds, reddit, fetches, submission,
          post_data, markdown_content, filename, files, files0, output_dir,
          writes, stdout, stderr, exit_code, log>>

harnessVars == <<arg, ret, ret2>>

mainVars == <<pc, args, env, creds, reddit, fetches, submission, post_data,
              markdown_content, filename, files, files0, output_dir, writes,
              stdout, stderr, exit_code, log>>

\* An optional value is a sequence of length at most one: Nothing while there
\* is no value (Python's None, or a call that has not returned), Some(v) after.
Nothing == <<>>

Some(v) == <<v>>

Val(o) == o[1]

Min(a, b) == IF a < b THEN a ELSE b

(***************************************************************************)
(* Characters.                                                             *)
(***************************************************************************)
LowerSeq == <<"a","b","c","d","e","f","g","h","i","j","k","l","m",
              "n","o","p","q","r","s","t","u","v","w","x","y","z">>

UpperSeq == <<"A","B","C","D","E","F","G","H","I","J","K","L","M",
              "N","O","P","Q","R","S","T","U","V","W","X","Y","Z">>

Range(s) == {s[i] : i \in DOMAIN s}

AsciiLower == Range(LowerSeq)

AsciiUpper == Range(UpperSeq)

Digits == {"0","1","2","3","4","5","6","7","8","9"}

\* LATIN CAPITAL LETTER I WITH DOT ABOVE: a letter whose lower-case form is
\* two code points, "i" followed by COMBINING DOT ABOVE.
CapIDot == "U+0130"

\* COMBINING DOT ABOVE: a mark (category Mn), not matched by \w.
CombDot == "U+0307"

\* MATHEMATICAL BOLD CAPITAL A: an upper-case letter (category Lu) with no
\* lower-case mapping; str.lower() leaves it as it is.
MathCapA == "U+1D400"

\* The character class [a-zA-Z0-9] of extract_post_id.
IsAlnumAscii(c) == c \in AsciiLower \cup AsciiUpper \cup Digits

\* The character class [<>:"/\\|?*] of sanitize_filename.
IsIllegal(c) == c \in {"<", ">", ":", "\"", "/", "\\", "|", "?", "*"}

\* \w on a str pattern: alphanumeric in Unicode, or the underscore.
IsWord(c) == \/ IsAlnumAscii(c)
             \/ c = "_"
             \/ c \in {CapIDot, MathCapA}

\* \s on a str pattern.
IsSpace(c) == c \in {" ", "\t", "\n", "\r"}

\* The character class [-\s].
IsSep(c) == c = "-" \/ IsSpace(c)

\* str.isupper() of one character.
IsUpper(c) == c \in AsciiUpper \cup {CapIDot, MathCapA}

\* str.lower() of one character: a sequence, since one character may
\* lower-case to two.
LowerChar(c) ==
    IF c \in AsciiUpper
    THEN <<LowerSeq[CHOOSE i \in DOMAIN UpperSeq : UpperSeq[i] = c]>>
    ELSE IF c = CapIDot THEN <<"i", CombDot>>
    ELSE <<c>>

(***************************************************************************)
(* RedditRipper.sanitize_filename                                          *)
(***************************************************************************)
\* The slice bound of text.lower()[:100].
TruncLen == 100

\* re.sub(r'[<>:"/\\|?*]', '', text)
RemoveIllegal(text) == SelectSeq(text, LAMBDA c : ~IsIllegal(c))

\* re.sub(r'[^\w\s-]', '', text)
KeepWordSpaceHyphen(text) ==
    SelectSeq(text, LAMBDA c : IsWord(c) \/ IsSpace(c) \/ c = "-")

\* re.sub(r'[-\s]+', '_', text): every maximal run of separators becomes
\* one underscore.  Position i survives when it is no separator or when it
\* starts a run.
CollapseSeps(text) ==
    LET starts(i) == IsSep(text[i]) /\ (i = 1 \/ ~IsSep(text[i - 1]))
        kept == SelectSeq([i \in 1..Len(text) |-> i],
                          LAMBDA i : ~IsSep(text[i]) \/ starts(i))
    IN  [k \in 1..Len(kept) |->
            IF IsSep(text[kept[k]]) THEN "_" ELSE text[kept[k]]]

RECURSIVE Flatten(_)
Flatten(ss) == IF ss = <<>> THEN <<>> ELSE Head(ss) \o Flatten(Tail(ss))

\* str.lower()
Lower(text) == Flatten([i \in 1..Len(text) |-> LowerChar(text[i])])

\* text[:100]
Truncate(text) == SubSeq(text, 1, Min(Len(text), TruncLen))

\* str.strip('_'): the underscores at the front go, then those at the end.
RECURSIVE LStrip(_)
LStrip(text) ==
    IF text # <<>> /\ Head(text) = "_" THEN LStrip(Tail(text)) ELSE text

RECURSIVE RStrip(_)
RStrip(text) ==
    IF text # <<>> /\ text[Len(text)] = "_"
    THEN RStrip(SubSeq(text, 1, Len(text) - 1))
    ELSE text

StripUnderscores(text) == RStrip(LStrip(text))

\* A variant that strips the underscores before it cuts the text.
sanitize_filename_strip_first(text) ==
    Truncate(StripUnderscores(Lower(CollapseSeps(
        KeepWordSpaceHyphen(RemoveIllegal(text))))))

sanitize_filename(text) ==
    StripUnderscores(Truncate(Lower(CollapseSeps(
        KeepWordSpaceHyphen(RemoveIllegal(text))))))

(***************************************************************************)
(* RedditRipper.extract_post_id and the check extract_post makes of it     *)
(***************************************************************************)
\* The literal part of the pattern r'/comments/([a-zA-Z0-9]+)'.
CommentsLit == <<"/", "c", "o", "m", "m", "e", "n", "t", "s", "/">>

\* Whether the pattern matches at position i: the literal, then at least
\* one character of the class.
MatchAt(url, i) ==
    /\ i + Len(CommentsLit) <= Len(url)
    /\ SubSeq(url, i, i + Len(CommentsLit) - 1) = CommentsLit
    /\ IsAlnumAscii(url[i + Len(CommentsLit)])

\* The end of the longest run of class characters that starts at position
\* from ("+" is greedy).
RunEnd(url, from) ==
    CHOOSE j \in from..Len(url) :
        /\ \A k \in from..j : IsAlnumAscii(url[k])
        /\ (j = Len(url) \/ ~IsAlnumAscii(url[j + 1]))

\* re.search: the leftmost match; group(1) of it, or None.
extract_post_id(url) ==
    LET hits == {i \in 1..Len(url) : MatchAt(url, i)}
    IN  IF hits = {} THEN Nothing
        ELSE LET i == CHOOSE h \in hits : \A g \in hits : h <= g
                 from == i + Len(CommentsLit)
             IN  Some(SubSeq(url, from, RunEnd(url, from)))

InvalidUrlMsg ==
    <<"I", "n", "v", "a", "l", "i", "d", " ", "R", "e", "d", "d", "i",
    "t", " ", "U", "R", "L">>

\* Lines 57-59 of extract_post: the identifier, or the message of the
\* ValueError raised.
CheckedPostId(url) ==
    LET post_id == extract_post_id(url)
    IN  IF post_id = Nothing \/ post_id = Some(<<>>)
        THEN [raised |-> Some(InvalidUrlMsg), post_id |-> Nothing]
        ELSE [raised |-> Nothing, post_id |-> post_id]

(***************************************************************************)
(* RedditRipper.extract_comments                                           *)
(*                                                                         *)
(* A comment is a record [body, replies]: body is Some(text), or Nothing   *)
(* for an object without a body attribute (a "load more" placeholder);     *)
(* replies is a forest, a sequence of comments.                            *)
(***************************************************************************)
\* "  " * depth
Indent(depth) == [i \in 1..(2 * depth) |-> " "]

\* f"{indent}- {comment.body}"
CommentLine(depth, body) == Indent(depth) \o <<"-", " ">> \o body

\* A variant that hands the replies the depth of their parent.
RECURSIVE extract_comments_same_depth(_, _, _)
extract_comments_same_depth(comment_forest, depth, top_level_only) ==
    IF comment_forest = <<>> THEN <<>>
    ELSE LET comment == Head(comment_forest)
             own == IF comment.body # Nothing
                    THEN <<CommentLine(depth, Val(comment.body))>>
                         \o (IF ~top_level_only /\ comment.replies # <<>>
                             THEN extract_comments_same_depth(
                                      comment.replies, depth, FALSE)
                             ELSE <<>>)
                    ELSE <<>>
         IN  own \o extract_comments_same_depth(
                        Tail(comment_forest), depth, top_level_only)

\* A variant that descends into the replies whatever top_level_only is.
RECURSIVE extract_comments_always_recurse(_, _, _)
extract_comments_always_recurse(comment_forest, depth, top_level_only) ==
    IF comment_forest = <<>> THEN <<>>
    ELSE LET comment == Head(comment_forest)
             own == IF comment.body # Nothing
                    THEN <<CommentLine(depth, Val(comment.body))>>
                         \o (IF comment.replies # <<>>
                             THEN extract_comments_always_recurse(
                                      comment.replies, depth + 1, FALSE)
                             ELSE <<>>)
                    ELSE <<>>
         IN  own \o extract_comments_always_recurse(
                        Tail(comment_forest), depth, top_level_only)

\* The loop over comment_forest, one comment per step: the comment's own
\* line and, unless top_level_only, the lines of its replies, found by the
\* recursive call, which passes depth + 1 and leaves top_level_only at its
\* default, False.
RECURSIVE extract_comments(_, _, _)
extract_comments(comment_forest, depth, top_level_only) ==
    IF comment_forest = <<>> THEN <<>>
    ELSE LET comment == Head(comment_forest)
             own == IF comment.body # Nothing
                    THEN <<CommentLine(depth, Val(comment.body))>>
                         \o (IF ~top_level_only /\ comment.replies # <<>>
                             THEN extract_comments(comment.replies, depth + 1, FALSE)
                             ELSE <<>>)
                    ELSE <<>>
         IN  own \o extract_comments(Tail(comment_forest), depth, top_level_only)

(***************************************************************************)
(* RedditRipper.extract_post (lines 66-72) and RedditRipper.format_markdown *)
(***************************************************************************)
NL == "\n"

LinkPost ==
    <<"[", "L", "i", "n", "k", " ", "P", "o", "s", "t", "]">>

LitTitle ==
    <<"#", " ">>

LitOriginalPost ==
    <<"*", "*", "O", "r", "i", "g", "i", "n", "a", "l", " ", "P", "o",
    "s", "t", ":", "*", "*", " ">>

LitSubreddit ==
    <<"*", "*", "S", "u", "b", "r", "e", "d", "d", "i", "t", ":", "*",
    "*", " ", "r", "/">>

LitPostContent ==
    <<"#", "#", " ", "P", "o", "s", "t", " ", "C", "o", "n", "t", "e",
    "n", "t">>

LitComments ==
    <<"#", "#", " ", "C", "o", "m", "m", "e", "n", "t", "s">>

\* The dict extract_post builds from the fetched submission: the self text,
\* or '[Link Post]' when it is empty, and the flattened comments.
BuildPostData(sub, url, top_level_only) ==
    [title |-> sub.title,
     subreddit |-> sub.subreddit,
     content |-> IF sub.selftext # <<>> THEN sub.selftext ELSE LinkPost,
     url |-> url,
     comments |-> extract_comments(sub.comments, 0, top_level_only)]

\* "\n".join(lines)
RECURSIVE JoinLines(_)
JoinLines(lines) ==
    IF lines = <<>> THEN <<>>
    ELSE IF Len(lines) = 1 THEN lines[1]
    ELSE lines[1] \o <<NL>> \o JoinLines(Tail(lines))

\* A variant that ends the document after the post content when there are
\* no comments, and leaves no blank line under the Comments heading.
format_markdown_tight(pd) ==
    LitTitle \o pd.title \o <<NL, NL>>
    \o LitOriginalPost \o pd.url \o <<NL, NL>>
    \o LitSubreddit \o pd.subreddit \o <<NL, NL>>
    \o LitPostContent \o <<NL, NL>> \o pd.content
    \o (IF pd.comments # <<>>
        THEN <<NL, NL>> \o LitComments \o <<NL>> \o JoinLines(pd.comments)
        ELSE <<>>)

format_markdown(pd) ==
    LitTitle \o pd.title \o <<NL, NL>>
    \o LitOriginalPost \o pd.url \o <<NL, NL>>
    \o LitSubreddit \o pd.subreddit \o <<NL, NL>>
    \o LitPostContent \o <<NL, NL>> \o pd.content \o <<NL, NL>>
    \o (IF pd.comments # <<>>
        THEN LitComments \o <<NL, NL>> \o JoinLines(pd.comments)
        ELSE <<>>)

(***************************************************************************)
(* RedditRipper.save_to_file                                               *)
(***************************************************************************)
LitOutputDir ==
    <<"o", "u", "t", "p", "u", "t", "/">>

LitReddit ==
    <<"r", "e", "d", "d", "i", "t", "_">>

LitMd ==
    <<".", "m", "d">>

\* os.path.join('output', f"reddit_{title}_{subreddit}.md")
FilePath(pd) ==
    LitOutputDir \o LitReddit \o sanitize_filename(pd.title) \o <<"_">>
    \o sanitize_filename(pd.subreddit) \o LitMd

\* No file in output/.
EmptyFs == [p \in {} |-> <<>>]

\* A variant that opens the file for appending.
WrittenAppend(fs, path, content) ==
    [p \in DOMAIN fs \cup {path} |->
        IF p = path
        THEN (IF path \in DOMAIN fs THEN fs[path] ELSE <<>>) \o content
        ELSE fs[p]]

\* The files of output/ once open(filepath, 'w') and f.write(content) are
\* through: filepath holds content, the other files are as they were.
Written(fs, path, content) ==
    [p \in DOMAIN fs \cup {path} |-> IF p = path THEN content ELSE fs[p]]

\* Texts of the example thread.
ExampleUrl ==
    <<"h", "t", "t", "p", "s", ":", "/", "/", "r", "e", "d", "d", "i",
    "t", ".", "e", "x", "a", "m", "p", "l", "e", "/", "r", "/", "t", "e",
    "s", "t", "/", "c", "o", "m", "m", "e", "n", "t", "s", "/", "a", "b",
    "c", "1", "2", "3", "/", "s", "o", "m", "e", "_", "t", "i", "t", "l",
    "e", "/">>

SomeTitle ==
    <<"S", "o", "m", "e", " ", "T", "i", "t", "l", "e">>

SubTest ==
    <<"t", "e", "s", "t">>

TextHello ==
    <<"H", "e", "l", "l", "o">>

TextTwoLines ==
    <<"O", "n", "e", "\n", "T", "w", "o">>

(***************************************************************************)
(* main()                                                                  *)
(***************************************************************************)
CredentialsMsg ==
    <<"E", "r", "r", "o", "r", ":", " ", "R", "e", "d", "d", "i", "t",
    " ", "A", "P", "I", " ", "c", "r", "e", "d", "e", "n", "t", "i", "a",
    "l", "s", " ", "r", "e", "q", "u", "i", "r", "e", "d", ".", " ", "P",
    "r", "o", "v", "i", "d", "e", " ", "v", "i", "a", " ", "C", "L", "I",
    " ", "a", "r", "g", "s", " ", "o", "r", " ", ".", "e", "n", "v", " ",
    "f", "i", "l", "e", ".">>

LitError ==
    <<"E", "r", "r", "o", "r", ":", " ">>

LitSuccess ==
    <<"S", "u", "c", "c", "e", "s", "s", "f", "u", "l", "l", "y", " ",
    "e", "x", "t", "r", "a", "c", "t", "e", "d", " ", "t", "o", ":", " ">>

UserAgentDefault ==
    <<"R", "e", "d", "d", "i", "t", "R", "i", "p", "p", "e", "r", "/",
    "1", ".", "0">>

\* What argparse prints, and the status it exits with, when it rejects the
\* command line (the positional url is missing) or is asked for help.
UsageError ==
    <<"r", "e", "d", "d", "i", "t", "_", "r", "i", "p", "p", "e", "r",
    ".", "p", "y", ":", " ", "e", "r", "r", "o", "r", ":", " ", "t", "h",
    "e", " ", "f", "o", "l", "l", "o", "w", "i", "n", "g", " ", "a", "r",
    "g", "u", "m", "e", "n", "t", "s", " ", "a", "r", "e", " ", "r", "e",
    "q", "u", "i", "r", "e", "d", ":", " ", "u", "r", "l">>

HelpText ==
    <<"u", "s", "a", "g", "e", ":", " ", "r", "e", "d", "d", "i", "t",
    "_", "r", "i", "p", "p", "e", "r", ".", "p", "y", " ", "[", "-", "h",
    "]">>

UsageExit == 2

\* The command lines and environments a run may start from.
ClientIdFlag ==
    <<"f", "l", "a", "g", "-", "i", "d">>

ClientIdEnv ==
    <<"e", "n", "v", "-", "i", "d">>

SecretFlag ==
    <<"f", "l", "a", "g", "-", "s", "e", "c", "r", "e", "t">>

SecretEnv ==
    <<"e", "n", "v", "-", "s", "e", "c", "r", "e", "t">>

BadUrl ==
    <<"h", "t", "t", "p", "s", ":", "/", "/", "r", "e", "d", "d", "i",
    "t", ".", "e", "x", "a", "m", "p", "l", "e", "/", "r", "/", "t", "e",
    "s", "t", "/">>

OkArgs ==
    [kind : {"ok"},
     url : {ExampleUrl, BadUrl},
     client_id : {Nothing, Some(<<>>), Some(ClientIdFlag)},
     client_secret : {Nothing, Some(<<>>), Some(SecretFlag)},
     user_agent : {UserAgentDefault},
     top_level_only : BOOLEAN]

Environments ==
    [client_id : {Nothing, Some(<<>>), Some(ClientIdEnv)},
     client_secret : {Nothing, Some(<<>>), Some(SecretEnv)}]

\* Python's truth value of an optional string: None and '' are false.
Truthy(o) == o # Nothing /\ Val(o) # <<>>

\* args.client_id or os.getenv('REDDIT_CLIENT_ID')
Resolve(cli, environ) == IF Truthy(cli) THEN cli ELSE environ

\* A variant that gives up only when both credentials are missing.
MissingCredentialsBoth(client_id, client_secret) ==
    ~Truthy(client_id) /\ ~Truthy(client_secret)

\* not client_id or not client_secret
MissingCredentials(client_id, client_secret) ==
    ~Truthy(client_id) \/ ~Truthy(client_secret)

\* submission.comments.replace_more(limit=None): every placeholder gives
\* way to the comments it stands for (its field more), at every depth.
\* A variant that leaves the placeholders where they are.
replace_more_skipped(forest) == forest

RECURSIVE replace_more(_)
replace_more(forest) ==
    IF forest = <<>> THEN <<>>
    ELSE LET c == Head(forest)
         IN  (IF c.body = Nothing
              THEN replace_more(c.more)
              ELSE <<[body |-> c.body, replies |-> replace_more(c.replies)]>>)
             \o replace_more(Tail(forest))

RECURSIVE HasPlaceholder(_)
HasPlaceholder(forest) ==
    \E i \in DOMAIN forest :
        forest[i].body = Nothing \/ HasPlaceholder(forest[i].replies)

\* A variant of the handler that prints the error and lets main return.
FailNoExit(msg, stage) ==
    /\ stderr' = Append(stderr, LitError \o msg)
    /\ exit_code' = Some(0)
    /\ pc' = "exited"
    /\ log' = log \o <<stage, "exit">>

\* The except clause of main: the message on the error stream, exit 1.
Fail(msg, stage) ==
    /\ stderr' = Append(stderr, LitError \o msg)
    /\ exit_code' = Some(1)
    /\ pc' = "exited"
    /\ log' = log \o <<stage, "exit">>

\* Line 12, load_dotenv(): the environment main will read is settled.
LoadDotenv ==
    /\ pc = "load_dotenv"
    /\ env' \in Environments
    /\ pc' = "parse_args"
    /\ UNCHANGED <<harnessVars, args, creds, reddit, fetches, submission,
                   post_data, markdown_content, filename, files, files0,
                   output_dir, writes, stdout, stderr, exit_code, log>>

\* parser.parse_args(): the command line is parsed; argparse itself ends
\* the run when it rejects it or is asked for help.
ParseArgs ==
    /\ pc = "parse_args"
    /\ \/ /\ args' \in OkArgs
          /\ pc' = "credentials"
          /\ log' = log \o <<"parse_args">>
          /\ UNCHANGED <<stdout, stderr, exit_code>>
       \/ /\ args' = [kind |-> "usage_error"]
          /\ stderr' = Append(stderr, UsageError)
          /\ exit_code' = Some(UsageExit)
          /\ pc' = "exited"
          /\ log' = log \o <<"parse_args", "exit">>
          /\ UNCHANGED stdout
       \/ /\ args' = [kind |-> "help"]
          /\ stdout' = Append(stdout, HelpText)
          /\ exit_code' = Some(0)
          /\ pc' = "exited"
          /\ log' = log \o <<"parse_args", "exit">>
          /\ UNCHANGED stderr
    /\ UNCHANGED <<harnessVars, env, creds, reddit, fetches, submission,
                   post_data, markdown_content, filename, files, files0,
                   output_dir, writes>>

\* Lines 116-121.
ResolveCredentials ==
    /\ pc = "credentials"
    /\ LET client_id == Resolve(args.client_id, env.client_id)
           client_secret == Resolve(args.client_secret, env.client_secret)
       IN  IF MissingCredentials(client_id, client_secret)
           THEN /\ stderr' = Append(stderr, CredentialsMsg)
                /\ exit_code' = Some(1)
                /\ pc' = "exited"
                /\ log' = log \o <<"credentials", "exit">>
                /\ UNCHANGED creds
           ELSE /\ creds' = Some([client_id |-> client_id,
                                  client_secret |-> client_secret])
                /\ pc' = "construct"
                /\ log' = log \o <<"credentials">>
                /\ UNCHANGED <<stderr, exit_code>>
    /\ UNCHANGED <<harnessVars, args, env, reddit, fetches, submission,
                   post_data, markdown_content, filename, files, files0,
                   output_dir, writes, stdout>>

\* Line 125: RedditRipper(client_id, client_secret, args.user_agent).
ConstructClient ==
    /\ pc = "construct"
    /\ reddit' = Some([client_id |-> Val(creds).client_id,
                       client_secret |-> Val(creds).client_secret,
                       user_agent |-> args.user_agent])
    /\ pc' = "post_id"
    /\ log' = log \o <<"construct">>
    /\ UNCHANGED <<harnessVars, args, env, creds, fetches, submission,
                   post_data, markdown_content, filename, files, files0,
                   output_dir, writes, stdout, stderr, exit_code>>

\* Lines 57-61: the identifier out of the URL, ValueError without one, else
\* the (lazy) submission object for it.
ExtractPostId ==
    /\ pc = "post_id"
    /\ LET checked == CheckedPostId(args.url)
       IN  IF checked.raised # Nothing
           THEN /\ Fail(Val(checked.raised), "post_id")
                /\ UNCHANGED submission
           ELSE /\ submission' = Some([id |-> Val(checked.post_id)])
                /\ pc' = "fetch"
                /\ log' = log \o <<"post_id">>
                /\ UNCHANGED <<stderr, exit_code>>
    /\ UNCHANGED <<harnessVars, args, env, creds, reddit, fetches,
                   post_data, markdown_content, filename, files, files0,
                   output_dir, writes, stdout>>

FetchErrorMsg ==
    <<"r", "e", "c", "e", "i", "v", "e", "d", " ", "4", "0", "4", " ",
    "H", "T", "T", "P", " ", "r", "e", "s", "p", "o", "n", "s", "e">>

PermissionMsg ==
    <<"[", "E", "r", "r", "n", "o", " ", "1", "3", "]", " ", "P", "e",
    "r", "m", "i", "s", "s", "i", "o", "n", " ", "d", "e", "n", "i", "e",
    "d">>

DiskFullMsg ==
    <<"[", "E", "r", "r", "n", "o", " ", "2", "8", "]", " ", "N", "o",
    " ", "s", "p", "a", "c", "e", " ", "l", "e", "f", "t", " ", "o", "n",
    " ", "d", "e", "v", "i", "c", "e">>

BodyNice ==
    <<"N", "i", "c", "e", "!">>

BodyThanks ==
    <<"T", "h", "a", "n", "k", "s", "!">>

\* The comment forests the remote may answer with: none, a comment with a
\* reply, and the same with the reply and a second comment still behind
\* placeholders.
RemoteForests ==
    {<<>>,
     <<[body |-> Some(BodyNice),
        replies |-> <<[body |-> Some(BodyThanks), replies |-> <<>>]>>]>>,
     <<[body |-> Some(BodyNice),
        replies |-> <<[body |-> Nothing, replies |-> <<>>,
                       more |-> <<[body |-> Some(BodyThanks),
                                   replies |-> <<>>]>>]>>],
       [body |-> Nothing, replies |-> <<>>,
        more |-> <<[body |-> Some(<<"x">>), replies |-> <<>>]>>]>>}

RemoteThreads ==
    [title : {SomeTitle}, subreddit : {SubTest},
     selftext : {<<>>, TextHello}, comments : RemoteForests]

\* Line 63, submission.comments: the client retrieves the thread, or raises.
FetchSubmission ==
    /\ pc = "fetch"
    /\ fetches' = fetches + 1
    /\ \/ \E thread \in RemoteThreads :
            /\ submission' = Some([id |-> Val(submission).id,
                                   title |-> thread.title,
                                   subreddit |-> thread.subreddit,
                                   selftext |-> thread.selftext,
                                   comments |-> thread.comments])
            /\ pc' = "replace_more"
            /\ log' = log \o <<"fetch">>
            /\ UNCHANGED <<stderr, exit_code>>
       \/ /\ Fail(FetchErrorMsg, "fetch")
          /\ UNCHANGED submission
    /\ UNCHANGED <<harnessVars, args, env, creds, reddit, post_data,
                   markdown_content, filename, files, files0, output_dir,
                   writes, stdout>>

\* Line 63, replace_more(limit=None): the placeholders are resolved, or a
\* request for the comments behind one raises.
ReplaceMore ==
    /\ pc = "replace_more"
    /\ \/ /\ submission' = Some([Val(submission) EXCEPT
                                    !.comments = replace_more(@)])
          /\ pc' = "extract_data"
          /\ log' = log \o <<"replace_more">>
          /\ UNCHANGED <<stderr, exit_code>>
       \/ /\ HasPlaceholder(Val(submission).comments)
          /\ Fail(FetchErrorMsg, "replace_more")
          /\ UNCHANGED submission
    /\ UNCHANGED <<harnessVars, args, env, creds, reddit, fetches, post_data,
                   markdown_content, filename, files, files0, output_dir,
                   writes, stdout>>

\* Lines 66-74: the dict, with the comments flattened.
ExtractPostData ==
    /\ pc = "extract_data"
    /\ post_data' = Some(BuildPostData(Val(submission), args.url,
                                       args.top_level_only))
    /\ pc' = "format"
    /\ log' = log \o <<"flatten">>
    /\ UNCHANGED <<harnessVars, args, env, creds, reddit, fetches, submission,
                   markdown_content, filename, files, files0, output_dir,
                   writes, stdout, stderr, exit_code>>

\* Line 127.
FormatPost ==
    /\ pc = "format"
    /\ markdown_content' = Some(format_markdown(Val(post_data)))
    /\ pc' = "save"
    /\ log' = log \o <<"format">>
    /\ UNCHANGED <<harnessVars, args, env, creds, reddit, fetches, submission,
                   post_data, filename, files, files0, output_dir, writes,
                   stdout, stderr, exit_code>>

\* Line 128, save_to_file: makedirs raises; or open raises; or the write
\* raises after open has emptied the file; or the directory is made, the
\* file opened and written and its path returned.
SaveToFile ==
    /\ pc = "save"
    /\ LET path == FilePath(Val(post_data))
       IN  \/ /\ ~output_dir
              /\ Fail(PermissionMsg, "write")
              /\ UNCHANGED <<output_dir, files, writes, filename>>
           \/ /\ output_dir' = TRUE
              /\ Fail(PermissionMsg, "write")
              /\ UNCHANGED <<files, writes, filename>>
           \/ /\ output_dir' = TRUE
              /\ files' = Written(files, path, <<>>)
              /\ writes' = writes + 1
              /\ Fail(DiskFullMsg, "write")
              /\ UNCHANGED filename
           \/ /\ output_dir' = TRUE
              /\ files' = Written(files, path, Val(markdown_content))
              /\ writes' = writes + 1
              /\ filename' = Some(path)
              /\ pc' = "print"
              /\ log' = log \o <<"write">>
              /\ UNCHANGED <<stderr, exit_code>>
    /\ UNCHANGED <<harnessVars, args, env, creds, reddit, fetches, submission,
                   post_data, markdown_content, files0, stdout>>

\* Line 130, and the return of main.
PrintSuccess ==
    /\ pc = "print"
    /\ stdout' = Append(stdout, LitSuccess \o Val(filename))
    /\ exit_code' = Some(0)
    /\ pc' = "exited"
    /\ log' = log \o <<"print", "exit">>
    /\ UNCHANGED <<harnessVars, args, env, creds, reddit, fetches, submission,
                   post_data, markdown_content, filename, files, files0,
                   output_dir, writes, stderr>>

(***************************************************************************)
(* The state of main() while a single function is exercised on its own.    *)
(***************************************************************************)
MainIdle ==
    /\ pc = "idle"
    /\ args = Nothing
    /\ env = Nothing
    /\ creds = Nothing
    /\ reddit = Nothing
    /\ fetches = 0
    /\ submission = Nothing
    /\ post_data = Nothing
    /\ markdown_content = Nothing
    /\ filename = Nothing
    /\ files = EmptyFs
    /\ files0 = EmptyFs
    /\ output_dir = FALSE
    /\ writes = 0
    /\ stdout = <<>>
    /\ stderr = <<>>
    /\ exit_code = Nothing
    /\ log = <<>>

(***************************************************************************)
(* Specification SpecSanitize: sanitize_filename applied to a text, and    *)
(* applied again to its own result.                                        *)
(***************************************************************************)
\* The longest text tried, not counting the padding in front of it.
MaxLen == 3

\* One character of every class sanitize_filename tells apart.
SanAlphabet == {"a", "B", "_", " ", "-", "/", "!", CapIDot, MathCapA}

RECURSIVE StringsUpTo(_, _)
StringsUpTo(n, alphabet) ==
    IF n = 0 THEN {<<>>}
    ELSE LET shorter == StringsUpTo(n - 1, alphabet)
         IN  shorter \cup {<<c>> \o s : c \in alphabet,
                                        s \in {t \in shorter : Len(t) = n - 1}}

Pad(k) == [i \in 1..k |-> "a"]

\* A text is short, or a short text behind a run of "a" that ends at most
\* three characters before the slice bound, so that every character class
\* falls before, on and after the point where the text is cut.
PadLens == {0} \cup ((TruncLen - 3)..TruncLen)

SanInputs == {Pad(k) \o s : k \in PadLens, s \in StringsUpTo(MaxLen, SanAlphabet)}

InitSanitize ==
    /\ arg \in SanInputs
    /\ ret = Nothing
    /\ ret2 = Nothing
    /\ MainIdle

SanitizeOnce ==
    /\ ret = Nothing
    /\ ret' = Some(sanitize_filename(arg))
    /\ UNCHANGED <<arg, ret2, mainVars>>

SanitizeAgain ==
    /\ ret # Nothing
    /\ ret2 = Nothing
    /\ ret2' = Some(sanitize_filename(Val(ret)))
    /\ UNCHANGED <<arg, ret, mainVars>>

NextSanitize == SanitizeOnce \/ SanitizeAgain

SpecSanitize == InitSanitize /\ [][NextSanitize]_vars

\* C4: sanitize_filename is idempotent: applied to its own result it
\* returns that result unchanged, for every text, also a text longer than
\* 100 characters cut next to an underscore, a hyphen or white space.
C4_Idempotent == ret2 # Nothing => Val(ret2) = Val(ret)

\* C5 as stated: the result is at most 100 characters long, holds no
\* path-illegal character, no white space, no hyphen and no upper-case
\* letter, neither starts nor ends with an underscore, and is empty for the
\* empty text and for a text of illegal characters only.
C5_AsStated ==
    ret # Nothing =>
        LET r == Val(ret)
        IN  /\ Len(r) <= TruncLen
            /\ \A i \in 1..Len(r) :
                    /\ ~IsIllegal(r[i])
                    /\ ~IsSpace(r[i])
                    /\ r[i] # "-"
                    /\ ~IsUpper(r[i])
            /\ r # <<>> => r[1] # "_" /\ r[Len(r)] # "_"
            /\ (\A i \in 1..Len(arg) : IsIllegal(arg[i])) => r = <<>>

\* C5 as amended: as C5_AsStated, but of upper-case letters only this: the
\* result holds no upper-case letter A-Z and lower-casing it changes
\* nothing (an upper-case letter without a lower-case form stays).
C5_Amended ==
    ret # Nothing =>
        LET r == Val(ret)
        IN  /\ Len(r) <= TruncLen
            /\ \A i \in 1..Len(r) :
                    /\ ~IsIllegal(r[i])
                    /\ ~IsSpace(r[i])
                    /\ r[i] # "-"
                    /\ r[i] \notin AsciiUpper
            /\ Lower(r) = r
            /\ r # <<>> => r[1] # "_" /\ r[Len(r)] # "_"
            /\ (\A i \in 1..Len(arg) : IsIllegal(arg[i])) => r = <<>>

\* A text longer than the slice bound, cut at an underscore that is then
\* stripped.
C5_Witness ==
    /\ ret # Nothing
    /\ Len(arg) > TruncLen
    /\ Len(Val(ret)) = TruncLen - 1
    /\ \E i \in 1..Len(arg) : IsSep(arg[i])

(***************************************************************************)
(* Specification SpecUrl: extract_post_id, and extract_post's check of     *)
(* its result, applied to a URL.                                           *)
(***************************************************************************)
\* The most pieces a URL is put together from.
MaxPieces == 4

UrlPieces == {CommentsLit, <<"/">>, <<"a">>, <<"B">>, <<"9">>, <<"_">>, <<"?">>}

RECURSIVE UrlsUpTo(_)
UrlsUpTo(n) ==
    IF n = 0 THEN {<<>>}
    ELSE LET shorter == UrlsUpTo(n - 1)
         IN  shorter \cup {p \o u : p \in UrlPieces, u \in shorter}

InitUrl ==
    /\ arg \in UrlsUpTo(MaxPieces)
    /\ ret = Nothing
    /\ ret2 = Nothing
    /\ MainIdle

ParseUrl ==
    /\ ret = Nothing
    /\ ret' = Some(CheckedPostId(arg))
    /\ UNCHANGED <<arg, ret2, mainVars>>

NextUrl == ParseUrl

SpecUrl == InitUrl /\ [][NextUrl]_vars

\* The identifiers <id> of the segments /comments/<id>/ of a URL: a
\* non-empty run of letters and digits between the literal and a slash.
SegmentIds(url) ==
    {SubSeq(url, i + Len(CommentsLit), j) :
        <<i, j>> \in {x \in (1..Len(url)) \X (1..Len(url)) :
            /\ x[1] + Len(CommentsLit) <= x[2]
            /\ x[2] < Len(url)
            /\ SubSeq(url, x[1], x[1] + Len(CommentsLit) - 1) = CommentsLit
            /\ \A k \in (x[1] + Len(CommentsLit))..x[2] : IsAlnumAscii(url[k])
            /\ url[x[2] + 1] = "/"}}

\* C3: a URL with a segment /comments/<id>/ yields exactly <id>, and a URL
\* without such a segment raises "Invalid Reddit URL".
C3_AsStated ==
    ret # Nothing =>
        LET r == Val(ret)
            ids == SegmentIds(arg)
        IN  /\ ids # {} => /\ r.raised = Nothing
                            /\ r.post_id # Nothing
                            /\ Val(r.post_id) \in ids
            /\ ids = {} => r.raised = Some(InvalidUrlMsg)

(***************************************************************************)
(* Specification SpecComments: extract_comments applied to a forest, as    *)
(* extract_post calls it (depth 0).                                        *)
(***************************************************************************)
\* The most comments (placeholders included) a forest holds.
MaxNodes == 4

BodyChoices == {Some(<<"x">>), Some(<<"y">>), Nothing}

\* The forests of exactly n nodes: a first tree of k nodes, then a forest of
\* the other n - k.  A placeholder has no replies.
RECURSIVE ForestsOfSize(_)
ForestsOfSize(n) ==
    IF n = 0 THEN {<<>>}
    ELSE UNION {
            {<<[body |-> b, replies |-> kids]>> \o rest :
                b \in BodyChoices,
                kids \in ForestsOfSize(k - 1),
                rest \in ForestsOfSize(n - k)}
            : k \in 1..n}

RECURSIVE PlaceholdersAreLeaves(_)
PlaceholdersAreLeaves(forest) ==
    \A i \in DOMAIN forest :
        /\ forest[i].body = Nothing => forest[i].replies = <<>>
        /\ PlaceholdersAreLeaves(forest[i].replies)

Forests(n) ==
    {f \in UNION {ForestsOfSize(k) : k \in 0..n} : PlaceholdersAreLeaves(f)}

InitComments ==
    /\ arg \in [comment_forest : Forests(MaxNodes), top_level_only : BOOLEAN]
    /\ ret = Nothing
    /\ ret2 = Nothing
    /\ MainIdle

ExtractComments ==
    /\ ret = Nothing
    /\ ret' = Some(extract_comments(arg.comment_forest, 0, arg.top_level_only))
    /\ UNCHANGED <<arg, ret2, mainVars>>

NextComments == ExtractComments

SpecComments == InitComments /\ [][NextComments]_vars

\* The positions of a forest's nodes: <<i>> is the i-th root, p \o <<j>> the
\* j-th reply of the node at p.
RECURSIVE Paths(_)
Paths(forest) ==
    UNION {{<<i>>} \cup {<<i>> \o p : p \in Paths(forest[i].replies)}
           : i \in DOMAIN forest}

RECURSIVE NodeAt(_, _)
NodeAt(forest, p) ==
    IF Len(p) = 1 THEN forest[p[1]]
    ELSE NodeAt(forest[p[1]].replies, Tail(p))

RECURSIVE AllHaveBody(_)
AllHaveBody(forest) ==
    \A i \in DOMAIN forest :
        forest[i].body # Nothing /\ AllHaveBody(forest[i].replies)

\* p comes before q in pre-order: p is an ancestor of q, or where the two
\* first part ways p takes the earlier sibling.
Before(p, q) ==
    \/ Len(p) < Len(q) /\ SubSeq(q, 1, Len(p)) = p
    \/ \E k \in 1..Min(Len(p), Len(q)) :
          /\ SubSeq(p, 1, k - 1) = SubSeq(q, 1, k - 1)
          /\ p[k] < q[k]

\* C1: with top_level_only false and a body on every node, the result is
\* the pre-order traversal: one line per node, (two spaces) * depth + "- " +
\* body, a parent before its descendants, a node's descendants before its
\* next sibling, siblings in their order.
C1_PreOrder ==
    (ret # Nothing /\ ~arg.top_level_only /\ AllHaveBody(arg.comment_forest)) =>
        LET forest == arg.comment_forest
            r == Val(ret)
            rank(p) == Cardinality({q \in Paths(forest) : Before(q, p)}) + 1
        IN  /\ Len(r) = Cardinality(Paths(forest))
            /\ \A p \in Paths(forest) :
                    r[rank(p)] = [i \in 1..(2 * (Len(p) - 1)) |-> " "]
                                 \o <<"-", " ">> \o Val(NodeAt(forest, p).body)

\* Three levels of comments, and a root with replies followed by a sibling.
C1_Witness ==
    /\ ret # Nothing
    /\ ~arg.top_level_only
    /\ AllHaveBody(arg.comment_forest)
    /\ \E p \in Paths(arg.comment_forest) : Len(p) = 3
    /\ Len(arg.comment_forest) = 2
    /\ arg.comment_forest[1].replies # <<>>

\* C2: with a body on every node, the result has as many lines as the
\* forest has nodes when top_level_only is false, and as many as it has
\* roots when top_level_only is true: then the lines are those of the roots
\* and no reply is emitted; an empty forest gives the empty sequence.
C2_Length ==
    (ret # Nothing /\ AllHaveBody(arg.comment_forest)) =>
        LET forest == arg.comment_forest
            r == Val(ret)
        IN  /\ ~arg.top_level_only => Len(r) = Cardinality(Paths(forest))
            /\ arg.top_level_only =>
                  /\ Len(r) = Len(forest)
                  /\ \A i \in DOMAIN forest :
                        r[i] = <<"-", " ">> \o Val(forest[i].body)
            /\ forest = <<>> => r = <<>>

\* top_level_only on a forest whose roots have replies.
C2_Witness ==
    /\ ret # Nothing
    /\ arg.top_level_only
    /\ AllHaveBody(arg.comment_forest)
    /\ Len(arg.comment_forest) = 2
    /\ arg.comment_forest[1].replies # <<>>
    /\ Len(Val(ret)) = 2

(***************************************************************************)
(* Specification SpecFormat: extract_post's construction of the dict from  *)
(* a fetched submission, then format_markdown applied to it.               *)
(***************************************************************************)
\* The most comments (placeholders included) of a submission to format.
MaxFmtNodes == 2

FmtSubmissions ==
    [title : {SomeTitle, <<"T">>},
     subreddit : {SubTest},
     selftext : {<<>>, TextHello, TextTwoLines},
     comments : Forests(MaxFmtNodes)]

InitFormat ==
    /\ arg \in [sub : FmtSubmissions, url : {ExampleUrl},
                 top_level_only : BOOLEAN]
    /\ ret = Nothing
    /\ ret2 = Nothing
    /\ MainIdle

ExtractData ==
    /\ ret = Nothing
    /\ ret' = Some(BuildPostData(arg.sub, arg.url, arg.top_level_only))
    /\ UNCHANGED <<arg, ret2, mainVars>>

FormatMarkdown ==
    /\ ret # Nothing
    /\ ret2 = Nothing
    /\ ret2' = Some(format_markdown(Val(ret)))
    /\ UNCHANGED <<arg, ret, mainVars>>

NextFormat == ExtractData \/ FormatMarkdown

SpecFormat == InitFormat /\ [][NextFormat]_vars

\* str.split("\n"): the lines of a text.
RECURSIVE SplitLines(_)
SplitLines(text) ==
    LET breaks == {i \in 1..Len(text) : text[i] = NL}
    IN  IF breaks = {} THEN <<text>>
        ELSE LET i == CHOOSE b \in breaks : \A c \in breaks : b <= c
             IN  <<SubSeq(text, 1, i - 1)>>
                 \o SplitLines(SubSeq(text, i + 1, Len(text)))

\* The lines every document starts with, down to the blank line under the
\* Post Content heading.
DocumentHead(pd) ==
    <<LitTitle \o pd.title, <<>>,
      LitOriginalPost \o pd.url, <<>>,
      LitSubreddit \o pd.subreddit, <<>>,
      LitPostContent, <<>>>>

\* C9 as stated: the title line, the source line, the subreddit line and
\* the Post Content heading, a blank line after each, then the body text
\* ('[Link Post]' for a post without text); with comments a blank line, the
\* Comments heading and the comment lines joined by newlines; without
\* comments nothing after the body text.
C9_AsStated ==
    ret2 # Nothing =>
        LET pd == Val(ret)
            lines == SplitLines(Val(ret2))
        IN  /\ pd.content =
                  IF arg.sub.selftext = <<>> THEN LinkPost ELSE arg.sub.selftext
            /\ lines = DocumentHead(pd) \o SplitLines(pd.content)
                  \o (IF pd.comments = <<>> THEN <<>>
                      ELSE <<<<>>, LitComments, <<>>>> \o pd.comments)

\* C9 as amended: as C9_AsStated, but the body text is always followed by
\* two newlines, so that without comments the document ends in a blank
\* line after the body text.
C9_Amended ==
    ret2 # Nothing =>
        LET pd == Val(ret)
            lines == SplitLines(Val(ret2))
        IN  /\ pd.content =
                  IF arg.sub.selftext = <<>> THEN LinkPost ELSE arg.sub.selftext
            /\ lines = DocumentHead(pd) \o SplitLines(pd.content)
                  \o (IF pd.comments = <<>> THEN <<<<>>, <<>>>>
                      ELSE <<<<>>, LitComments, <<>>>> \o pd.comments)

\* A link post without comments, formatted.
C9_Witness ==
    /\ ret2 # Nothing
    /\ arg.sub.selftext = <<>>
    /\ Val(ret).content = LinkPost
    /\ Val(ret).comments = <<>>

(***************************************************************************)
(* Specification SpecSave: save_to_file called with a dict and a document, *)
(* on a directory output/ that may hold files already.                     *)
(***************************************************************************)
ExamplePath ==
    <<"o", "u", "t", "p", "u", "t", "/", "r", "e", "d", "d", "i", "t",
    "_", "s", "o", "m", "e", "_", "t", "i", "t", "l", "e", "_", "t", "e",
    "s", "t", ".", "m", "d">>

OtherPath ==
    <<"o", "u", "t", "p", "u", "t", "/", "n", "o", "t", "e", "s", ".",
    "m", "d">>

OldContent ==
    <<"o", "l", "d">>

NewContent ==
    <<"#", " ", "n", "e", "w">>

SaveTitles == {SomeTitle, <<"A", "/", "b">>, <<"_", "x", " ">>, <<>>, <<CapIDot>>}

SaveSubreddits == {SubTest, <<"A", "s", "k">>}

\* What output/ may hold beforehand: nothing, a file under the example's
\* name, another file, or both.
SaveFilesBefore ==
    {EmptyFs,
     [p \in {ExamplePath} |-> OldContent],
     [p \in {OtherPath} |-> OldContent],
     [p \in {ExamplePath, OtherPath} |-> OldContent]}

InitSave ==
    /\ arg = Nothing
    /\ ret = Nothing
    /\ ret2 = Nothing
    /\ pc = "save"
    /\ args = Nothing
    /\ env = Nothing
    /\ creds = Nothing
    /\ reddit = Nothing
    /\ fetches = 0
    /\ submission = Nothing
    /\ \E t \in SaveTitles, sr \in SaveSubreddits :
          post_data = Some([title |-> t, subreddit |-> sr, content |-> TextHello,
                            url |-> ExampleUrl, comments |-> <<>>])
    /\ markdown_content \in {Some(NewContent), Some(OldContent), Some(<<>>)}
    /\ filename = Nothing
    /\ files0 \in SaveFilesBefore
    /\ files = files0
    /\ output_dir \in {d \in BOOLEAN : files0 # EmptyFs => d}
    /\ writes = 0
    /\ stdout = <<>>
    /\ stderr = <<>>
    /\ exit_code = Nothing
    /\ log = <<>>

NextSave == SaveToFile

SpecSave == InitSave /\ [][NextSave]_vars

\* C8: when save_to_file returns, output exists, the file
\* output/reddit_<sanitized title>_<sanitized subreddit>.md holds exactly
\* the content, whatever it held before, every other file is as it was, and
\* the path returned is that file's; for "Some Title" and "test" it is
\* output/reddit_some_title_test.md.
C8_Saved ==
    pc = "print" =>
        LET pd == Val(post_data)
            path == LitOutputDir \o LitReddit \o sanitize_filename(pd.title)
                    \o <<"_">> \o sanitize_filename(pd.subreddit) \o LitMd
        IN  /\ output_dir
            /\ filename = Some(path)
            /\ DOMAIN files = DOMAIN files0 \cup {path}
            /\ files[path] = Val(markdown_content)
            /\ \A p \in DOMAIN files0 \ {path} : files[p] = files0[p]
            /\ (pd.title = SomeTitle /\ pd.subreddit = SubTest)
                  => path = ExamplePath

\* The example's file, which held something else, written over beside
\* another file.
C8_Witness ==
    /\ pc = "print"
    /\ Val(post_data).title = SomeTitle
    /\ Val(post_data).subreddit = SubTest
    /\ DOMAIN files0 = {ExamplePath, OtherPath}
    /\ Val(markdown_content) = NewContent
    /\ files[ExamplePath] = NewContent

(***************************************************************************)
(* Specification SpecMain: one run of main(), from the command line to the *)
(* exit.  main is sequential, so a step that can be taken is taken.        *)
(***************************************************************************)
InitMain ==
    /\ arg = Nothing
    /\ ret = Nothing
    /\ ret2 = Nothing
    /\ pc = "load_dotenv"
    /\ args = Nothing
    /\ env = Nothing
    /\ creds = Nothing
    /\ reddit = Nothing
    /\ fetches = 0
    /\ submission = Nothing
    /\ post_data = Nothing
    /\ markdown_content = Nothing
    /\ filename = Nothing
    /\ files0 \in {EmptyFs, [p \in {ExamplePath} |-> OldContent]}
    /\ files = files0
    /\ output_dir = (files0 # EmptyFs)
    /\ writes = 0
    /\ stdout = <<>>
    /\ stderr = <<>>
    /\ exit_code = Nothing
    /\ log = <<>>

NextMain ==
    \/ LoadDotenv
    \/ ParseArgs
    \/ ResolveCredentials
    \/ ConstructClient
    \/ ExtractPostId
    \/ FetchSubmission
    \/ ReplaceMore
    \/ ExtractPostData
    \/ FormatPost
    \/ SaveToFile
    \/ PrintSuccess

SpecMain == InitMain /\ [][NextMain]_vars /\ WF_vars(NextMain)

\* Whether text starts with prefix.
StartsWith(text, prefix) ==
    Len(prefix) <= Len(text) /\ SubSeq(text, 1, Len(prefix)) = prefix

\* Whether text holds part somewhere.
Contains(text, part) ==
    \E i \in 1..(Len(text) - Len(part) + 1) :
        SubSeq(text, i, i + Len(part) - 1) = part

\* The run fetched the thread, formatted it and wrote the document.
Succeeded ==
    /\ submission # Nothing
    /\ "title" \in DOMAIN Val(submission)
    /\ markdown_content # Nothing
    /\ filename # Nothing
    /\ Val(filename) \in DOMAIN files
    /\ files[Val(filename)] = Val(markdown_content)

\* On failure: one line Error: <message> on the error stream, nothing on
\* standard output.
ErrorReported ==
    /\ stdout = <<>>
    /\ Len(stderr) = 1
    /\ StartsWith(stderr[1], LitError)

\* On success: the path of the file on standard output.
PathPrinted ==
    /\ Len(stdout) = 1
    /\ Contains(stdout[1], Val(filename))
    /\ stderr = <<>>

\* C6 as stated: a run ends with exit code 0 exactly when the thread was
\* fetched, formatted and written, the path then being printed to standard
\* output, and with exit code 1 on any failure, a missing or invalid command
\* line included, with Error: <message> on the error stream and nothing on
\* standard output.
C6_AsStated ==
    pc = "exited" =>
        /\ exit_code = Some(0) <=> Succeeded
        /\ Succeeded => PathPrinted
        /\ ~Succeeded => exit_code = Some(1) /\ ErrorReported

\* C6 as amended: the same of every run whose command line argparse
\* accepts; a command line it rejects ends the run with exit code 2 and
\* argparse's own message on the error stream, and a request for help ends
\* it with exit code 0 and the help on standard output, nothing fetched or
\* written in either case.
C6_Amended ==
    pc = "exited" =>
        /\ args.kind = "ok" =>
              /\ exit_code = Some(0) <=> Succeeded
              /\ Succeeded => PathPrinted
              /\ ~Succeeded => exit_code = Some(1) /\ ErrorReported
        /\ args.kind = "usage_error" =>
              /\ exit_code = Some(2)
              /\ stdout = <<>>
              /\ stderr = <<UsageError>>
        /\ args.kind = "help" =>
              /\ exit_code = Some(0)
              /\ stdout = <<HelpText>>
              /\ stderr = <<>>
        /\ args.kind # "ok" => fetches = 0 /\ writes = 0 /\ files = files0

\* A run that failed while writing, after a fetch that succeeded.
C6_Witness ==
    /\ pc = "exited"
    /\ args.kind = "ok"
    /\ exit_code = Some(1)
    /\ markdown_content # Nothing
    /\ ErrorReported
    /\ StartsWith(stderr[1], LitError \o DiskFullMsg)

\* Neither the flag nor the environment gives a non-empty value.
Absent(cli, environ) ==
    /\ cli = Nothing \/ cli = Some(<<>>)
    /\ environ = Nothing \/ environ = Some(<<>>)

LitCredentials ==
    <<"c", "r", "e", "d", "e", "n", "t", "i", "a", "l", "s">>

\* C7: when the client id or the client secret is absent, flag and
\* environment both considered, main prints a message holding "credentials"
\* to the error stream and exits with code 1, with no API client constructed,
\* nothing fetched and no file written; a client that is constructed got
\* the flag's value where the flag gave one and the environment's otherwise.
C7_FailFast ==
    (pc \notin {"load_dotenv", "parse_args", "credentials"} /\ args.kind = "ok") =>
        /\ (\/ Absent(args.client_id, env.client_id)
            \/ Absent(args.client_secret, env.client_secret)) =>
              /\ pc = "exited"
              /\ exit_code = Some(1)
              /\ Len(stderr) = 1
              /\ Contains(stderr[1], LitCredentials)
              /\ stdout = <<>>
              /\ reddit = Nothing
              /\ fetches = 0
              /\ writes = 0
              /\ files = files0
              /\ log = <<"parse_args", "credentials", "exit">>
        /\ reddit # Nothing =>
              /\ Val(reddit).client_id =
                    IF args.client_id = Some(ClientIdFlag)
                    THEN Some(ClientIdFlag) ELSE env.client_id
              /\ Val(reddit).client_secret =
                    IF args.client_secret = Some(SecretFlag)
                    THEN Some(SecretFlag) ELSE env.client_secret

\* The id comes from the flag, the secret from nowhere: the run has ended.
C7_Witness ==
    /\ pc = "exited"
    /\ args.kind = "ok"
    /\ args.client_id = Some(ClientIdFlag)
    /\ args.client_secret = Nothing
    /\ env.client_secret = Some(<<>>)
    /\ exit_code = Some(1)

\* The stages C10 names, in its order.
StageOrder ==
    <<"credentials", "post_id", "fetch", "replace_more", "flatten", "format",
      "write">>

\* The stages of StageOrder, and the exit, among those carried out.
StagesDone ==
    SelectSeq(log, LAMBDA st : st = "exit" \/ st \in Range(StageOrder))

\* The order of the stages, and what it entails, in one state.
C10_Order ==
    /\ \E k \in 0..Len(StageOrder) :
          \/ StagesDone = SubSeq(StageOrder, 1, k)
          \/ StagesDone = SubSeq(StageOrder, 1, k) \o <<"exit">>
    /\ pc = "exited" <=> (log # <<>> /\ log[Len(log)] = "exit")
    /\ pc = "exited" <=> exit_code # Nothing
    /\ "flatten" \in Range(log) => ~HasPlaceholder(Val(submission).comments)
    /\ pc = "extract_data" => ~HasPlaceholder(Val(submission).comments)
    /\ (pc \notin {"load_dotenv", "parse_args"} /\ args.kind = "ok"
          /\ extract_post_id(args.url) = Nothing) => fetches = 0
    /\ fetches <= 1
    /\ writes <= 1
    /\ writes = 1 => markdown_content # Nothing /\ post_data # Nothing
    /\ "write" \notin Range(log) => files = files0 /\ output_dir = (files0 # EmptyFs)

\* C10: in every run the stages come in the order credential resolution,
\* URL parsing, thread retrieval, placeholder resolution, flattening,
\* formatting, file write, exit; the flattener sees only a forest whose
\* placeholders are resolved; a URL without identifier is never fetched; at
\* most one file is written, after every earlier stage, and a run that fails
\* earlier leaves the files as they were; and every run ends, by one
\* success or one failure, nothing retried.
C10_Stages == []C10_Order /\ <>(pc = "exited")

\* A run through every stage, on a thread that had placeholders.
C10_Witness ==
    /\ pc = "exited"
    /\ exit_code = Some(0)
    /\ StagesDone = StageOrder \o <<"exit">>
    /\ Len(Val(post_data).comments) = 3
    /\ files # files0

=============================================================================
